---------------------------- MODULE Spec2Model ----------------------------
(***************************************************************************)
(* Model of the two Google Docs agent tools, GoogleDocsRead._invoke and    *)
(* GoogleDocsWrite._invoke: input validation, the bounded retry loop with  *)
(* a fixed delay, the polled cancellation flag and the structured outputs. *)
(***************************************************************************)
EXTENDS Integers, Sequences, FiniteSets, TLC

(***************************************************************************)
(* Bounds of the model.                                                    *)
(***************************************************************************)
\* largest value of the configured max_retries
MaxRetries == 2
\* largest value of the configured delay_after_error
MaxDelay == 1
\* longest document_id argument, in characters
MaxDocLen == 2
\* longest operations argument, in characters
MaxOpsLen == 2

(***************************************************************************)
(* Text.  Arguments are sequences of one-character strings, so that strip  *)
(* and the JSON decoder can be computed on them; messages and return       *)
(* values are strings.                                                     *)
(***************************************************************************)
DocChars == {" ", "d"}
OpsChars == {" ", "[", "]", "1", "x"}

SeqsUpTo(S, n) == UNION {[1..k -> S] : k \in 0..n}

IsSpace(c) == c = " "

\* the first position (0-based) from i on whose character is not in S,
\* len(s) if there is none
SkipOver(s, i, S) ==
    LET stops == {k \in i..(Len(s) - 1) : s[k + 1] \notin S}
    IN  IF stops = {} THEN Len(s) ELSE CHOOSE k \in stops : \A j \in stops : k <= j

\* s without its leading whitespace
LStrip(s) == SubSeq(s, SkipOver(s, 0, {" "}) + 1, Len(s))

\* s without its trailing whitespace
RStrip(s) ==
    SubSeq(s, 1, CHOOSE e \in 0..Len(s) :
                    /\ e = 0 \/ ~IsSpace(s[e])
                    /\ \A j \in (e + 1)..Len(s) : IsSpace(s[j]))

\* a variant that leaves the whitespace in place
StripNone(s) == s

\* str.strip()
Strip(s) == RStrip(LStrip(s))

\* kwargs.get(key, "")
KwGet(kw, key) == IF key \in DOMAIN kw THEN kw[key] ELSE <<>>

(***************************************************************************)
(* json.loads on the characters of OpsChars: whitespace, arrays and        *)
(* integers.  Positions are 0-based as in the decoder.  A result is        *)
(* [ok |-> TRUE, val, end], or [ok |-> FALSE, msg, pos] with exc the class *)
(* of the exception raised: json.JSONDecodeError, or ValueError from int() *)
(* on too many digits, or RecursionError when the interpreter runs out of  *)
(* frames.  There is no comma among the characters, so an array holds at   *)
(* most one element: the decoder descends through the opening brackets to  *)
(* one innermost value and then ascends through the closing brackets.      *)
(* Descent and ascent are computed by counting, not by recursion.          *)
(***************************************************************************)
\* sys.get_int_max_str_digits(): the most digits int() converts
IntMaxStrDigits == 4300
\* sys.getrecursionlimit()
RecursionLimit == 1000
\* the fewest frames in use when raw_decode runs: the caller's, and those of
\* _invoke, loads, decode and raw_decode
MinFrames == 5
\* frames it takes to build a JSONDecodeError where it is raised
ErrorFrames == 2
\* the stack depths of the model: how deep in its own calls the caller
\* calls _invoke is the environment's choice, here from module level or
\* from a function
Frames == {MinFrames, MinFrames + 1}

\* s[i:i+1]
At(s, i) == IF i < Len(s) THEN s[i + 1] ELSE ""

SkipWs(s, i) == SkipOver(s, i, {" "})

\* the end of the digits that start at position i
DigitsEnd(s, i) == SkipOver(s, i, {"1"})

\* how many of the characters s[i:e] are c
CountIn(s, i, e, c) == Cardinality({k \in i..(e - 1) : s[k + 1] = c})

\* the position after the n-th "]" from position i on
AfterClose(s, i, n) ==
    LET closes == {k \in i..(Len(s) - 1) : s[k + 1] = "]"}
    IN  1 + CHOOSE k \in closes : Cardinality({j \in closes : j <= k}) = n

\* a decoded value, by its shape: the integer written as `digits` digits
\* "1" inside `depth` arrays, or for digits = 0 an empty array inside
\* depth - 1 arrays.  t is the type of the value: int, or list
JsonValue(depth, digits) ==
    [t |-> IF depth = 0 THEN "int" ELSE "list", depth |-> depth, digits |-> digits]

JsonOk(v, e) == [ok |-> TRUE, val |-> v, end |-> e, msg |-> "", pos |-> 0, exc |-> ""]
JsonErr(m, p) ==
    [ok |-> FALSE, val |-> JsonValue(0, 0), end |-> 0, msg |-> m, pos |-> p,
     exc |-> "JSONDecodeError"]
JsonRaise(k) ==
    [ok |-> FALSE, val |-> JsonValue(0, 0), end |-> 0, msg |-> "", pos |-> 0, exc |-> k]

\* raise JSONDecodeError(m, s, p), d frames above raw_decode, with f frames
\* in use when raw_decode runs: the error is built if the frames suffice
JsonErrAt(m, p, d, f) ==
    IF f + d + ErrorFrames >= RecursionLimit THEN JsonRaise("RecursionError")
    ELSE JsonErr(m, p)

\* the ascent: the innermost value ends at position e inside `open` arrays
\* and v is the value of the outermost one, with f frames in use when
\* raw_decode runs.  Each array wants its "]"; where one
\* is missing the array raises "Expecting ',' delimiter" from its depth,
\* one call into the scanner.  Characters after the outermost value are
\* "Extra data", raised by decode, the caller of raw_decode
JSONArray(s, e, open, v, f) ==
    LET q == SkipOver(s, e, {" ", "]"})
        c == CountIn(s, e, q, "]")
    IN  IF c < open
        THEN JsonErrAt("Expecting ',' delimiter", q, (open - c) + 1, f)
        ELSE LET e1 == IF open = 0 THEN e ELSE AfterClose(s, e, open)
                 e2 == SkipWs(s, e1)
             IN  IF e2 # Len(s) THEN JsonErrAt("Extra data", e2, -1, f)
                 ELSE JsonOk(v, e1)

\* json.loads(s) with f frames in use when raw_decode runs
JsonLoads(s, f) ==
    LET p == SkipOver(s, 0, {" ", "["})
        n == CountIn(s, 0, p, "[")
        e == DigitsEnd(s, p)
    IN  IF n + f >= RecursionLimit THEN JsonRaise("RecursionError")
        ELSE IF At(s, p) = "1"
        THEN IF e - p > IntMaxStrDigits THEN JsonRaise("ValueError")
             ELSE JSONArray(s, e, n, JsonValue(n, e - p), f)
        ELSE IF At(s, p) = "]" /\ n >= 1
        THEN JSONArray(s, p + 1, n - 1, JsonValue(n, 0), f)
        ELSE JsonErrAt("Expecting value", p, 0, f)

\* str(e) of a json.JSONDecodeError on a one-line document
JsonErrStr(r) ==
    r.msg \o ": line 1 column " \o ToString(r.pos + 1)
          \o " (char " \o ToString(r.pos) \o ")"

(***************************************************************************)
(* json.dumps(obj, indent=2) of a response body.  A body is a flat object, *)
(* given as the sequence of its <<key, value>> members.                    *)
(***************************************************************************)
Bodies == { <<>>, << <<"documentId", "d">> >> }

RECURSIVE DumpMembers(_)
DumpMembers(b) ==
    IF b = <<>> THEN ""
    ELSE "  \"" \o Head(b)[1] \o "\": \"" \o Head(b)[2] \o "\""
         \o (IF Tail(b) = <<>> THEN "" ELSE ",\n" \o DumpMembers(Tail(b)))

JsonDumps(b) == IF b = <<>> THEN "{}" ELSE "{\n" \o DumpMembers(b) \o "\n}"

(***************************************************************************)
(* The tools, their configuration and their arguments.                     *)
(***************************************************************************)
\* component_name of the two tools
Tools == {"GoogleDocsRead", "GoogleDocsWrite"}

\* str(e) of the exceptions client construction and the remote call raise
Msgs == {"", "quota exceeded", "timed out"}

\* the keyword arguments of one call: each key present or absent
Kw(hasDoc, d, hasOps, o) ==
    [k \in (IF hasDoc THEN {"document_id"} ELSE {})
           \cup (IF hasOps THEN {"operations"} ELSE {})
        |-> IF k = "document_id" THEN d ELSE o]

\* n times the character c
Times(c, n) == [j \in 1..n |-> c]

\* operations values at the limits of the decoder: one digit more than
\* int() converts; arrays nested as deep as the interpreter's stack; and
\* the deepest arrays, unclosed, that the decoder still rejects with a
\* JSONDecodeError when no more than MinFrames frames are in use
LongOps ==
    {Times("1", IntMaxStrDigits + 1),
     Times("[", RecursionLimit),
     Times("[", RecursionLimit - MinFrames - 1),
     Times("[", RecursionLimit - MinFrames - ErrorFrames - 2) \o <<"1">>}

DocArgs == SeqsUpTo(DocChars, MaxDocLen)
OpsArgs == SeqsUpTo(OpsChars, MaxOpsLen) \cup LongOps

Kwargs(t) ==
    IF t = "GoogleDocsRead"
    THEN {Kw(TRUE, d, FALSE, <<>>) : d \in DocArgs} \cup {Kw(FALSE, <<>>, FALSE, <<>>)}
    ELSE {Kw(TRUE, d, TRUE, o) : d \in DocArgs, o \in OpsArgs}
         \cup {Kw(FALSE, <<>>, TRUE, o) : o \in OpsArgs}
         \cup {Kw(TRUE, d, FALSE, <<>>) : d \in DocArgs}
         \cup {Kw(FALSE, <<>>, FALSE, <<>>)}

\* a mapping with no keys
EmptyMap == [k \in {} |-> ""]

\* the local operations before it is assigned
Unassigned == [t |-> "unassigned", depth |-> 0, digits |-> 0]

\* no previous invocation; no second invocation
NoPrev == [ended |-> FALSE, ret |-> [kind |-> "running", text |-> ""],
           outputs |-> [k \in {} |-> ""]]
NoParked == [used |-> FALSE]

\* how _invoke ends: a bare return (None), a string, or an exception that
\* leaves it
NotReturned == [kind |-> "running", text |-> ""]
ReturnNone == [kind |-> "None", text |-> ""]
ReturnStr(s) == [kind |-> "str", text |-> s]
Raise(k) == [kind |-> k, text |-> ""]
RaiseAssertion == Raise("AssertionError")

VARIABLES
    tool,               \* component_name of the tool instance
    max_retries,        \* self._param.max_retries
    delay_after_error,  \* self._param.delay_after_error
    outputs,            \* the structured outputs of the call: key -> value
    canceled,           \* the task's cancellation flag
    pc,                 \* where the invocation is
    kwargs,             \* the arguments of the call
    document_id,        \* local: the stripped document_id
    operations,         \* local (write): the decoded operations
    last_e,             \* local: the captured error message
    i,                  \* iterations of the for loop started
    exc,                \* str(e) of the exception being handled
    service,            \* local: the client built in this iteration (0: none yet)
    ret,                \* what _invoke returned or raised
    written,            \* history: the set_output calls of this invocation
    polls,              \* history: the check_if_canceled calls, <<where, result>>
    attempts,           \* history: try blocks entered
    builds,             \* history: _get_docs_service calls
    calls,              \* history: remote calls executed
    sleeps,             \* history: time.sleep calls
    elapsed,            \* history: time slept in total
    trace,              \* history: the outcome of each attempt
    round,              \* history: invocations started on this instance
    prev,               \* history: how the previous invocation ended
    me,                 \* which of two interleaved invocations is running
    parked,             \* the state of the invocation that is not running
    store               \* where the results are kept, once that shows

config == <<tool, max_retries, delay_after_error>>
locals == <<kwargs, document_id, operations, last_e, i, exc, service>>
history == <<written, polls, attempts, builds, calls, sleeps, elapsed, trace>>
where == <<round, prev, me, store>>
session == <<round, prev, me, store, parked>>
vars == <<config, outputs, canceled, pc, locals, ret, history, session>>

Init ==
    /\ tool \in Tools
    /\ max_retries \in 0..MaxRetries
    /\ delay_after_error \in 0..MaxDelay
    /\ outputs = EmptyMap
    /\ canceled = FALSE
    /\ pc = "idle"
    /\ kwargs = EmptyMap
    /\ document_id = <<>>
    /\ operations = Unassigned
    /\ last_e = ""
    /\ i = 0
    /\ exc = ""
    /\ service = 0
    /\ ret = NotReturned
    /\ written = <<>>
    /\ polls = <<>>
    /\ attempts = 0
    /\ builds = 0
    /\ calls = 0
    /\ sleeps = 0
    /\ elapsed = 0
    /\ trace = <<>>
    /\ round = 0
    /\ prev = NoPrev
    /\ me = 1
    /\ parked = NoParked
    /\ store = "open"

(***************************************************************************)
(* Helpers of the base class, as the tools use them.                       *)
(***************************************************************************)
\* self.set_output(key, value) on the results o
SetOutput(o, key, value) ==
    [k \in DOMAIN o \cup {key} |-> IF k = key THEN value ELSE o[k]]

\* where the base class keeps the results: created for each call, or on the
\* tool object, where a later call and an overlapping call of that object
\* find them.  _invoke only calls self.set_output and self.output, so which
\* of the two it is is the environment's choice.
Stores == {"call", "object"}

\* the other invocation after the results became o: it finds them too when
\* both are invocations of one object that keeps the results
Seen(o) ==
    IF store = "object" /\ parked.used THEN [parked EXCEPT !.outputs = o] ELSE parked

\* self.set_output(key, value) as _invoke calls it
Write(key, value) ==
    /\ outputs' = SetOutput(outputs, key, value)
    /\ written' = Append(written, <<key, value>>)
    /\ parked' = Seen(SetOutput(outputs, key, value))

\* self.check_if_canceled(...): the value of the flag
CheckIfCanceled(flag) == flag

(***************************************************************************)
(* Input validation: what the argument checks of _invoke decide.           *)
(* [ok |-> TRUE, document_id, operations], or [ok |-> FALSE, error], or    *)
(* [ok |-> FALSE, raised] when an exception no handler catches leaves the  *)
(* checks; document_id and operations are the locals as far as they were   *)
(* assigned.                                                               *)
(***************************************************************************)
Valid(d, ops) ==
    [ok |-> TRUE, error |-> "", raised |-> "", document_id |-> d, operations |-> ops]
Invalid(m, d, ops) ==
    [ok |-> FALSE, error |-> m, raised |-> "", document_id |-> d, operations |-> ops]
Uncaught(k, d) ==
    [ok |-> FALSE, error |-> "", raised |-> k, document_id |-> d,
     operations |-> Unassigned]

ValidateRead(kw) ==
    LET d == Strip(KwGet(kw, "document_id"))
    IN  IF d = <<>> THEN Invalid("document_id is required", d, Unassigned)
        ELSE Valid(d, Unassigned)

\* the handler is `except json.JSONDecodeError` only; f the frames in use
\* when the decoder runs
ValidateWrite(kw, f) ==
    LET d == Strip(KwGet(kw, "document_id"))
        o == Strip(KwGet(kw, "operations"))
        r == JsonLoads(o, f)
    IN  IF d = <<>> THEN Invalid("document_id is required", d, Unassigned)
        ELSE IF o = <<>> THEN Invalid("operations is required", d, Unassigned)
        ELSE IF r.exc \notin {"", "JSONDecodeError"} THEN Uncaught(r.exc, d)
        ELSE IF ~r.ok
        THEN Invalid("Invalid JSON in operations: " \o JsonErrStr(r), d, Unassigned)
        ELSE IF r.val.t # "list"
        THEN Invalid("operations must be a JSON array", d, r.val)
        ELSE Valid(d, r.val)

Validate(t, kw, f) ==
    IF t = "GoogleDocsRead" THEN ValidateRead(kw) ELSE ValidateWrite(kw, f)

(***************************************************************************)
(* The steps of one invocation.                                            *)
(***************************************************************************)
\* a bare return
Return(r) ==
    /\ ret' = r
    /\ pc' = "done"

\* how an invocation that ended is remembered when the next one starts
Ended(r, o) == [ended |-> TRUE, ret |-> r, outputs |-> o]

\* a variant in which the results of the previous call stay in place
FreshOutputs_Kept(o) == o

\* the results of a call are created fresh: no key is set when it starts
FreshOutputs(o) == EmptyMap

\* the orchestrator calls _invoke(**kw), for the first time or again after
\* the previous call returned; the flag may already be set.  The call finds
\* no result where results are created per call, and those on the object
\* where they are kept there; a second call of the object shows which.
Invoke(kw, flag) ==
    /\ pc \in {"idle", "done"}
    /\ \E st \in Stores :
          /\ store \in {"open", st}
          /\ store' = IF pc = "done" THEN st ELSE store
          /\ outputs' = IF st = "object" THEN outputs ELSE FreshOutputs(outputs)
    /\ kwargs' = kw
    /\ canceled' = flag
    /\ round' = round + 1
    /\ prev' = IF pc = "done" THEN Ended(ret, outputs) ELSE prev
    /\ pc' = "entry"
    /\ document_id' = <<>>
    /\ operations' = Unassigned
    /\ last_e' = ""
    /\ i' = 0
    /\ exc' = ""
    /\ service' = 0
    /\ ret' = NotReturned
    /\ written' = <<>>
    /\ polls' = <<>>
    /\ attempts' = 0
    /\ builds' = 0
    /\ calls' = 0
    /\ sleeps' = 0
    /\ elapsed' = 0
    /\ trace' = <<>>
    /\ UNCHANGED <<config, me, parked>>

\* a variant of Entry that reports the cancellation as an error
Entry_ReportsCancel ==
    /\ pc = "entry"
    /\ polls' = Append(polls, <<"entry", CheckIfCanceled(canceled)>>)
    /\ IF CheckIfCanceled(canceled)
       THEN /\ Write("_ERROR", "Task has been canceled")
            /\ Return(ReturnNone)
       ELSE pc' = "validate" /\ UNCHANGED <<ret, outputs, written, parked>>
    /\ UNCHANGED <<config, canceled, locals>>
    /\ UNCHANGED <<attempts, builds, calls, sleeps, elapsed, trace>>
    /\ UNCHANGED where

\* the cancellation check at the entry of _invoke
Entry ==
    /\ pc = "entry"
    /\ polls' = Append(polls, <<"entry", CheckIfCanceled(canceled)>>)
    /\ IF CheckIfCanceled(canceled)
       THEN Return(ReturnNone)
       ELSE pc' = "validate" /\ UNCHANGED ret
    /\ UNCHANGED <<config, outputs, canceled, locals>>
    /\ UNCHANGED <<written, attempts, builds, calls, sleeps, elapsed, trace>>
    /\ UNCHANGED session

\* the argument checks, up to the first statement of the loop, or up to
\* the first set_output of a rejected argument; how many frames are in
\* use when the decoder runs is the environment's choice
Validation ==
    /\ pc = "validate"
    /\ \E f \in Frames :
       LET v == Validate(tool, kwargs, f)
       IN  IF v.ok
           THEN /\ document_id' = v.document_id
                /\ operations' = v.operations
                /\ last_e' = ""
                /\ pc' = "loop"
                /\ UNCHANGED <<outputs, written, parked, ret>>
           ELSE IF v.raised # ""
           THEN /\ document_id' = v.document_id
                /\ operations' = v.operations
                /\ Return(Raise(v.raised))
                /\ UNCHANGED <<outputs, written, parked, last_e>>
           ELSE /\ document_id' = v.document_id
                /\ operations' = v.operations
                /\ Write("_ERROR", v.error)
                /\ pc' = "invalid_success"
                /\ UNCHANGED <<ret, last_e>>
    /\ UNCHANGED <<config, canceled, kwargs, i, exc, service>>
    /\ UNCHANGED <<polls, attempts, builds, calls, sleeps, elapsed, trace>>
    /\ UNCHANGED where

\* the second statement after a rejected argument: set_output("success", False)
InvalidSuccess ==
    /\ pc = "invalid_success"
    /\ Write("success", FALSE)
    /\ pc' = "invalid_return"
    /\ UNCHANGED <<config, canceled, locals, ret>>
    /\ UNCHANGED <<polls, attempts, builds, calls, sleeps, elapsed, trace>>
    /\ UNCHANGED where

\* the third: return "Error: ..." with the message of the first, which the
\* arguments determine whenever the decoder has not left _invoke by an exception
InvalidReturn ==
    /\ pc = "invalid_return"
    /\ \E f \in Frames :
       LET v == Validate(tool, kwargs, f)
       IN  /\ ~v.ok /\ v.raised = ""
           /\ Return(ReturnStr("Error: " \o v.error))
    /\ UNCHANGED <<config, outputs, canceled, locals>>
    /\ UNCHANGED <<written, polls, attempts, builds, calls, sleeps, elapsed, trace>>
    /\ UNCHANGED session

\* a variant of LoopTop whose loop runs one iteration more
LoopTop_OneMore ==
    /\ pc = "loop"
    /\ IF i >= max_retries + 2
       THEN /\ pc' = "exhausted"
            /\ UNCHANGED <<i, polls, attempts, ret>>
       ELSE /\ i' = i + 1
            /\ polls' = Append(polls, <<"top", CheckIfCanceled(canceled)>>)
            /\ IF CheckIfCanceled(canceled)
               THEN Return(ReturnNone) /\ UNCHANGED attempts
               ELSE pc' = "build" /\ attempts' = attempts + 1 /\ UNCHANGED ret
    /\ UNCHANGED <<config, outputs, canceled, kwargs, document_id, operations, last_e, exc, service>>
    /\ UNCHANGED <<written, builds, calls, sleeps, elapsed, trace>>
    /\ UNCHANGED session

\* a variant of LoopTop that starts the attempt whatever the flag says
LoopTop_NoCheck ==
    /\ pc = "loop"
    /\ IF i >= max_retries + 1
       THEN /\ pc' = "exhausted"
            /\ UNCHANGED <<i, polls, attempts>>
       ELSE /\ i' = i + 1
            /\ polls' = Append(polls, <<"top", CheckIfCanceled(canceled)>>)
            /\ pc' = "build"
            /\ attempts' = attempts + 1
    /\ UNCHANGED <<config, outputs, canceled, kwargs, document_id, operations, last_e, exc, service>>
    /\ UNCHANGED <<written, builds, calls, sleeps, elapsed, trace, ret>>
    /\ UNCHANGED session

\* the head of the for loop and the cancellation check of an iteration
LoopTop ==
    /\ pc = "loop"
    /\ IF i >= max_retries + 1
       THEN /\ pc' = "exhausted"
            /\ UNCHANGED <<i, polls, attempts, ret>>
       ELSE /\ i' = i + 1
            /\ polls' = Append(polls, <<"top", CheckIfCanceled(canceled)>>)
            /\ IF CheckIfCanceled(canceled)
               THEN Return(ReturnNone) /\ UNCHANGED attempts
               ELSE pc' = "build" /\ attempts' = attempts + 1 /\ UNCHANGED ret
    /\ UNCHANGED <<config, outputs, canceled, kwargs, document_id, operations, last_e, exc, service>>
    /\ UNCHANGED <<written, builds, calls, sleeps, elapsed, trace>>
    /\ UNCHANGED session

\* a variant of GetDocsServiceOk that keeps the client of an earlier attempt
GetDocsServiceOk_Reused ==
    /\ pc = "build"
    /\ IF service = 0
       THEN builds' = builds + 1 /\ service' = builds + 1
       ELSE UNCHANGED <<builds, service>>
    /\ pc' = "call"
    /\ UNCHANGED <<config, outputs, canceled, ret>>
    /\ UNCHANGED <<kwargs, document_id, operations, last_e, i, exc>>
    /\ UNCHANGED <<written, polls, attempts, calls, sleeps, elapsed, trace>>
    /\ UNCHANGED session

\* self._get_docs_service() returns a client
GetDocsServiceOk ==
    /\ pc = "build"
    /\ builds' = builds + 1
    /\ service' = builds + 1
    /\ pc' = "call"
    /\ UNCHANGED <<config, outputs, canceled, ret>>
    /\ UNCHANGED <<kwargs, document_id, operations, last_e, i, exc>>
    /\ UNCHANGED <<written, polls, attempts, calls, sleeps, elapsed, trace>>
    /\ UNCHANGED session

\* self._get_docs_service() raises an exception e with str(e) = m
GetDocsServiceFail(m) ==
    /\ pc = "build"
    /\ builds' = builds + 1
    /\ exc' = m
    /\ trace' = Append(trace, [ok |-> FALSE, at |-> "build", text |-> m, body |-> <<>>, client |-> 0])
    /\ pc' = "except"
    /\ UNCHANGED <<config, outputs, canceled, kwargs, document_id, operations, last_e, i, service, ret>>
    /\ UNCHANGED <<written, polls, attempts, calls, sleeps, elapsed>>
    /\ UNCHANGED session

\* a variant of ExecuteOk that records the success but stays in the loop
ExecuteOk_NoReturn(b) ==
    /\ pc = "call"
    /\ calls' = calls + 1
    /\ trace' = Append(trace, [ok |-> TRUE, at |-> "call", text |-> "", body |-> b, client |-> service])
    /\ IF tool = "GoogleDocsWrite"
       THEN Write("success", TRUE)
       ELSE UNCHANGED <<outputs, written, parked>>
    /\ pc' = "loop"
    /\ UNCHANGED <<config, canceled, locals, ret>>
    /\ UNCHANGED <<polls, attempts, builds, sleeps, elapsed>>
    /\ UNCHANGED where

\* the remote call returns the body b: the success path of the try block
ExecuteOk(b) ==
    /\ pc = "call"
    /\ calls' = calls + 1
    /\ trace' = Append(trace, [ok |-> TRUE, at |-> "call", text |-> "", body |-> b, client |-> service])
    /\ IF tool = "GoogleDocsWrite"
       THEN Write("success", TRUE)
       ELSE UNCHANGED <<outputs, written, parked>>
    /\ Return(ReturnStr(JsonDumps(b)))
    /\ UNCHANGED <<config, canceled, locals>>
    /\ UNCHANGED <<polls, attempts, builds, sleeps, elapsed>>
    /\ UNCHANGED where

\* the remote call raises an exception e with str(e) = m
ExecuteFail(m) ==
    /\ pc = "call"
    /\ calls' = calls + 1
    /\ exc' = m
    /\ trace' = Append(trace, [ok |-> FALSE, at |-> "call", text |-> m, body |-> <<>>, client |-> service])
    /\ pc' = "except"
    /\ UNCHANGED <<config, outputs, canceled, kwargs, document_id, operations, last_e, i, service, ret>>
    /\ UNCHANGED <<written, polls, attempts, builds, sleeps, elapsed>>
    /\ UNCHANGED session

\* a variant of Except that handles the failure whatever the flag says
Except_NoRecheck ==
    /\ pc = "except"
    /\ polls' = Append(polls, <<"except", CheckIfCanceled(canceled)>>)
    /\ last_e' = exc
    /\ pc' = "sleep"
    /\ UNCHANGED <<config, outputs, canceled, kwargs, document_id, operations, i, exc, service>>
    /\ UNCHANGED <<written, attempts, builds, calls, sleeps, elapsed, trace, ret>>
    /\ UNCHANGED session

\* the except block up to the sleep: re-check the flag, capture the message
Except ==
    /\ pc = "except"
    /\ polls' = Append(polls, <<"except", CheckIfCanceled(canceled)>>)
    /\ IF CheckIfCanceled(canceled)
       THEN Return(ReturnNone) /\ UNCHANGED last_e
       ELSE last_e' = exc /\ pc' = "sleep" /\ UNCHANGED ret
    /\ UNCHANGED <<config, outputs, canceled, kwargs, document_id, operations, i, exc, service>>
    /\ UNCHANGED <<written, attempts, builds, calls, sleeps, elapsed, trace>>
    /\ UNCHANGED session

\* time.sleep(self._param.delay_after_error), the last statement of the loop body
Sleep ==
    /\ pc = "sleep"
    /\ sleeps' = sleeps + 1
    /\ elapsed' = elapsed + delay_after_error
    /\ pc' = "loop"
    /\ UNCHANGED <<config, outputs, canceled, locals, ret>>
    /\ UNCHANGED <<written, polls, attempts, builds, calls, trace>>
    /\ UNCHANGED session

\* a variant of Exhausted that polls the flag once more after the loop
Exhausted_Rechecks ==
    /\ pc = "exhausted"
    /\ IF CheckIfCanceled(canceled)
       THEN /\ Return(ReturnNone)
            /\ UNCHANGED <<outputs, written, parked>>
       ELSE IF last_e # ""
       THEN /\ Write("_ERROR", last_e)
            /\ pc' = "failed_success"
            /\ UNCHANGED ret
       ELSE /\ Return(RaiseAssertion)
            /\ UNCHANGED <<outputs, written, parked>>
    /\ UNCHANGED <<config, canceled, locals>>
    /\ UNCHANGED <<polls, attempts, builds, calls, sleeps, elapsed, trace>>
    /\ UNCHANGED where

\* after the loop: the first set_output of the captured error, or the
\* assertion fails
Exhausted ==
    /\ pc = "exhausted"
    /\ IF last_e # ""
       THEN /\ Write("_ERROR", last_e)
            /\ pc' = "failed_success"
            /\ UNCHANGED ret
       ELSE /\ Return(RaiseAssertion)
            /\ UNCHANGED <<outputs, written, parked>>
    /\ UNCHANGED <<config, canceled, locals>>
    /\ UNCHANGED <<polls, attempts, builds, calls, sleeps, elapsed, trace>>
    /\ UNCHANGED where

\* the second statement of the error report: set_output("success", False)
FailedSuccess ==
    /\ pc = "failed_success"
    /\ Write("success", FALSE)
    /\ pc' = "failed_return"
    /\ UNCHANGED <<config, canceled, locals, ret>>
    /\ UNCHANGED <<polls, attempts, builds, calls, sleeps, elapsed, trace>>
    /\ UNCHANGED where

\* the third: return "<tool> error: ..."
FailedReturn ==
    /\ pc = "failed_return"
    /\ Return(ReturnStr(tool \o " error: " \o last_e))
    /\ UNCHANGED <<config, outputs, canceled, locals>>
    /\ UNCHANGED <<written, polls, attempts, builds, calls, sleeps, elapsed, trace>>
    /\ UNCHANGED session

\* the environment sets the cancellation flag while the invocation runs
Cancel ==
    /\ pc \notin {"idle", "done"}
    /\ ~canceled
    /\ canceled' = TRUE
    /\ UNCHANGED <<config, outputs, pc, locals, ret, history>>
    /\ UNCHANGED session

\* the steps the invocation itself takes
Run ==
    \/ Entry
    \/ Validation
    \/ InvalidSuccess
    \/ InvalidReturn
    \/ LoopTop
    \/ GetDocsServiceOk
    \/ \E m \in Msgs : GetDocsServiceFail(m)
    \/ \E b \in Bodies : ExecuteOk(b)
    \/ \E m \in Msgs : ExecuteFail(m)
    \/ Except
    \/ Sleep
    \/ Exhausted
    \/ FailedSuccess
    \/ FailedReturn

\* the steps of an invocation under way, the environment's included
Step ==
    \/ Run
    \/ Cancel

\* one invocation of one tool instance, on any arguments
Next ==
    \/ pc = "idle" /\ \E kw \in Kwargs(tool), flag \in BOOLEAN : Invoke(kw, flag)
    \/ Step

Spec == Init /\ [][Next]_vars

\* every client construction, remote call and sleep eventually returns: weak
\* fairness of Run, which has a step exactly while an invocation is under way
FairSpec == Spec /\ ([]<>(pc \in {"idle", "done"}) \/ []<><<Run>>_vars)

(***************************************************************************)
(* Several invocations of one tool instance, one after the other.          *)
(***************************************************************************)
\* most invocations of the instance
MaxRounds == 2
\* largest max_retries of an instance invoked repeatedly
MaxSeqRetries == 1

\* arguments of the repeated invocations: a blank and a good document_id,
\* good and bad operations
SeqKwargs(t) ==
    IF t = "GoogleDocsRead"
    THEN {Kw(TRUE, <<" ">>, FALSE, <<>>), Kw(TRUE, <<"d">>, FALSE, <<>>)}
    ELSE {Kw(TRUE, <<" ">>, TRUE, <<"[", "]">>), Kw(TRUE, <<"d">>, TRUE, <<"[", "]">>),
          Kw(TRUE, <<"d">>, TRUE, <<"x">>)}

InitSeq ==
    /\ Init
    /\ max_retries <= MaxSeqRetries
    /\ delay_after_error = MaxDelay

NextSeq ==
    \/ /\ pc \in {"idle", "done"}
       /\ round < MaxRounds
       /\ \E kw \in SeqKwargs(tool), flag \in BOOLEAN : Invoke(kw, flag)
    \/ Step

SpecSeq == InitSeq /\ [][NextSeq]_vars

(***************************************************************************)
(* Vocabulary of the properties.                                           *)
(***************************************************************************)
Done == pc = "done"

\* the flag was never set during the invocation (it is never cleared)
Uncancelled == ~canceled

\* the argument is missing, empty or whitespace only
BlankArg(kw, key) ==
    key \notin DOMAIN kw \/ \A j \in 1..Len(kw[key]) : kw[key][j] = " "

\* the arguments are valid: accepted with the fewest frames in use
ValidInputs == Validate(tool, kwargs, MinFrames).ok

AllAttemptsFailed == \A j \in 1..Len(trace) : ~trace[j].ok

IsSet(key) == key \in DOMAIN outputs

SuccessIs(b) == IsSet("success") /\ outputs["success"] = b

ErrorIs(m) == IsSet("_ERROR") /\ outputs["_ERROR"] = m

\* the strings _invoke returns for a remote error
RemoteErrorStrings == {t \o " error: " \o m : t \in Tools, m \in Msgs}

\* the strings _invoke returns for rejected arguments
JsonErrorKinds == {"Expecting value", "Expecting ',' delimiter", "Extra data"}

InputErrorStrings ==
    {"Error: " \o m : m \in {"document_id is required", "operations is required",
                             "operations must be a JSON array"}}
    \cup {"Error: Invalid JSON in operations: " \o JsonErrStr(JsonErr(m, p)) :
              m \in JsonErrorKinds, p \in 0..MaxOpsLen \cup {Len(o) : o \in LongOps}}

Wrote(key, value) ==
    \E j \in 1..Len(written) : written[j][1] = key /\ written[j][2] = value

(***************************************************************************)
(* C1: in an uncancelled invocation with valid inputs in which every       *)
(* attempt fails, exactly max_retries + 1 attempts are made and the        *)
(* invocation returns an error string with success = false and _ERROR set. *)
(* The code breaks it when the last exception has an empty message.        *)
(***************************************************************************)
C1_AllFailThenError ==
    (Done /\ Uncancelled /\ ValidInputs /\ AllAttemptsFailed)
        => /\ attempts = max_retries + 1
           /\ ret.kind = "str"
           /\ ret.text \in RemoteErrorStrings
           /\ SuccessIs(FALSE)
           /\ IsSet("_ERROR")

(***************************************************************************)
(* C2: in an uncancelled invocation that makes n >= 2 attempts, exactly    *)
(* n - 1 sleeps of delay_after_error occur, none after the last attempt.   *)
(* The code sleeps after the last failed attempt too.                      *)
(***************************************************************************)
C2_SleepsBetweenAttemptsOnly ==
    (Done /\ Uncancelled /\ attempts >= 2)
        => /\ sleeps = attempts - 1
           /\ elapsed = (attempts - 1) * delay_after_error

(***************************************************************************)
(* C3: in an uncancelled invocation where attempt k is the first to        *)
(* succeed, exactly k attempts occur and the value returned is the         *)
(* serialized response body of attempt k, not an error string.             *)
(***************************************************************************)
C3_SuccessOnAttemptK ==
    \A k \in 1..Len(trace) :
        (Uncancelled /\ trace[k].ok)
            => /\ k = Len(trace)
               /\ attempts = k
               /\ \A j \in 1..(k - 1) : ~trace[j].ok
               /\ k <= max_retries + 1
               /\ Done
               /\ ret = ReturnStr(JsonDumps(trace[k].body))
               /\ ret.text \notin RemoteErrorStrings \cup InputErrorStrings

C3_Witness ==
    /\ Done /\ Uncancelled
    /\ Len(trace) = 3
    /\ ~trace[1].ok /\ ~trace[2].ok /\ trace[3].ok
    /\ trace[3].body = << <<"documentId", "d">> >>
    /\ attempts = 3
    /\ ret = ReturnStr("{\n  \"documentId\": \"d\"\n}")

(***************************************************************************)
(* C4: whenever an attempt's remote call succeeds, the invocation records  *)
(* the output success = true before returning, for both tools.  The read   *)
(* tool returns without recording it.                                      *)
(***************************************************************************)
C4_SuccessRecorded ==
    \A k \in 1..Len(trace) :
        trace[k].ok => (SuccessIs(TRUE) /\ Wrote("success", TRUE))

(***************************************************************************)
(* C5: at completion of an uncancelled invocation exactly one holds:       *)
(* (a) a success payload was returned and success = true, or (b) _ERROR   *)
(* is set and success = false.                                             *)
(***************************************************************************)
SuccessPayloadReturned ==
    /\ ret.kind = "str"
    /\ \E k \in 1..Len(trace) : trace[k].ok /\ ret.text = JsonDumps(trace[k].body)

C5_ExactlyOneOutcome ==
    (Done /\ Uncancelled)
        => ((SuccessPayloadReturned /\ SuccessIs(TRUE))
                # (IsSet("_ERROR") /\ SuccessIs(FALSE)))

(***************************************************************************)
(* C6: an uncancelled invocation whose document_id is missing, empty or    *)
(* blank returns "Error: document_id is required", sets _ERROR and         *)
(* success = false, and makes no client, no remote call and no sleep,      *)
(* whatever the operations value.                                          *)
(***************************************************************************)
NoRemoteActivity == attempts = 0 /\ builds = 0 /\ calls = 0 /\ sleeps = 0 /\ elapsed = 0

C6_BlankDocumentId ==
    (Done /\ Uncancelled /\ BlankArg(kwargs, "document_id"))
        => /\ ret = ReturnStr("Error: document_id is required")
           /\ ErrorIs("document_id is required")
           /\ SuccessIs(FALSE)
           /\ NoRemoteActivity

C6_Witness ==
    /\ Done /\ Uncancelled
    /\ tool = "GoogleDocsWrite"
    /\ DOMAIN kwargs = {"document_id", "operations"}
    /\ kwargs["document_id"] = <<" ", " ">>
    /\ kwargs["operations"] = <<"[", "]">>
    /\ ret = ReturnStr("Error: document_id is required")
    /\ ErrorIs("document_id is required")

(***************************************************************************)
(* C7: for the write tool with a non-blank document_id, an operations      *)
(* value that is blank, not valid JSON or not a JSON array gives an error  *)
(* string naming the problem, _ERROR and success = false, and no client,   *)
(* no remote call, no retry and no sleep.  The problem named is that of    *)
(* the value itself, as the decoder finds it with the fewest frames in     *)
(* use; an integer of more digits than int() converts is valid JSON and    *)
(* not an array, and arrays nested deeper than the interpreter recurses    *)
(* are not valid JSON.                                                     *)
(***************************************************************************)
OperationsProblem(kw) ==
    LET r == JsonLoads(Strip(KwGet(kw, "operations")), MinFrames)
    IN  IF BlankArg(kw, "operations") THEN "operations is required"
        ELSE IF r.exc = "ValueError" THEN "operations must be a JSON array"
        ELSE IF r.exc = "RecursionError" THEN "Invalid JSON in operations"
        ELSE IF ~r.ok THEN "Invalid JSON in operations: " \o JsonErrStr(r)
        ELSE IF r.val.t # "list" THEN "operations must be a JSON array"
        ELSE ""

C7_BadOperations ==
    (/\ Done /\ Uncancelled
     /\ tool = "GoogleDocsWrite"
     /\ ~BlankArg(kwargs, "document_id")
     /\ OperationsProblem(kwargs) # "")
        => /\ ret = ReturnStr("Error: " \o OperationsProblem(kwargs))
           /\ ErrorIs(OperationsProblem(kwargs))
           /\ SuccessIs(FALSE)
           /\ NoRemoteActivity

(***************************************************************************)
(* C8: if the cancellation flag is observed set before any attempt (at the *)
(* entry check or at the top of the first iteration), the invocation       *)
(* returns no value, makes no client and no remote call and writes neither *)
(* success nor _ERROR, even when the inputs are invalid.                   *)
(***************************************************************************)
ObservedCanceled == \E j \in 1..Len(polls) : polls[j][2]

C8_CanceledBeforeAnyAttempt ==
    (attempts = 0 /\ ObservedCanceled)
        => /\ Done
           /\ ret = ReturnNone
           /\ builds = 0 /\ calls = 0
           /\ written = <<>>
           /\ ~IsSet("success") /\ ~IsSet("_ERROR")

C8_Witness ==
    /\ Done
    /\ Len(polls) = 1 /\ polls[1][1] = "entry" /\ polls[1][2]
    /\ BlankArg(kwargs, "document_id")
    /\ ret = ReturnNone
    /\ written = <<>>

(***************************************************************************)
(* C9: when the retry loop exhausts in an uncancelled invocation, _ERROR   *)
(* is the message of the last failed attempt verbatim and the return value *)
(* is "<component name> error: " followed by it.  The code reports nothing *)
(* when that message is empty.                                             *)
(***************************************************************************)
C9_LastErrorReported ==
    (/\ Done /\ Uncancelled
     /\ Len(trace) = max_retries + 1
     /\ AllAttemptsFailed)
        => /\ ErrorIs(trace[Len(trace)].text)
           /\ ret = ReturnStr(tool \o " error: " \o trace[Len(trace)].text)

(***************************************************************************)
(* C10: the state "loop exhausted with no captured error" is unreachable   *)
(* in an uncancelled invocation and the final assert False never fires,    *)
(* whatever message each exception carries.  An empty message reaches it.  *)
(***************************************************************************)
C10_AssertionUnreachable ==
    /\ ret # RaiseAssertion
    /\ (pc = "exhausted" /\ Uncancelled) => last_e # ""

(***************************************************************************)
(* C11: if an attempt raises and the flag is set when it is re-checked     *)
(* right after the failure, the invocation returns no value, writes        *)
(* neither _ERROR nor success, does not capture the message, does not      *)
(* sleep and makes no further attempt.                                     *)
(***************************************************************************)
LastPoll == polls[Len(polls)]

\* the message captured before the latest attempt failed
CapturedBeforeLast == IF Len(trace) >= 2 THEN trace[Len(trace) - 1].text ELSE ""

C11_CanceledAfterFailure ==
    (polls # <<>> /\ LastPoll[1] = "except" /\ LastPoll[2])
        => /\ Done
           /\ ret = ReturnNone
           /\ written = <<>>
           /\ ~IsSet("_ERROR") /\ ~IsSet("success")
           /\ ~trace[Len(trace)].ok
           /\ last_e = CapturedBeforeLast
           /\ sleeps = Len(trace) - 1
           /\ attempts = Len(trace)

C11_Witness ==
    /\ Done
    /\ polls # <<>> /\ LastPoll[1] = "except" /\ LastPoll[2]
    /\ Len(trace) = 2
    /\ trace[1].text = "quota exceeded"
    /\ trace[2].text = "timed out"
    /\ last_e = "quota exceeded"
    /\ sleeps = 1
    /\ ret = ReturnNone

(***************************************************************************)
(* C12: the flag is set asynchronously and never cleared.  As claimed:     *)
(* once it is set no client construction and no remote call begins, while  *)
(* a remote call in flight runs to completion and, if it succeeds, its     *)
(* payload is returned.  The flag is only polled, so the remote call of an *)
(* attempt whose client was being built when the flag was set still        *)
(* begins.                                                                 *)
(***************************************************************************)
SucceededNow ==
    /\ trace' # trace
    /\ trace'[Len(trace')].ok

PayloadReturnedNow ==
    /\ pc' = "done"
    /\ ret' = ReturnStr(JsonDumps(trace'[Len(trace')].body))

C12_NothingBeginsAfterFlag ==
    [][canceled => /\ (pc' = "build" => pc = "build")
                   /\ (pc' = "call" => pc = "call")
                   /\ (SucceededNow => PayloadReturnedNow)]_vars

(***************************************************************************)
(* C12 as amended: once the flag is set no further attempt is admitted (no *)
(* iteration passes its check at the top of the loop); the one attempt     *)
(* already admitted still builds its client and makes its remote call, and *)
(* if that call succeeds its payload is returned.                          *)
(***************************************************************************)
C12_NoAttemptAdmittedAfterFlag ==
    [][canceled => /\ attempts' = attempts
                   /\ (pc' = "build" => pc = "build")
                   /\ builds' <= attempts /\ calls' <= builds'
                   /\ (SucceededNow => PayloadReturnedNow)]_vars

C12_Witness ==
    /\ Done /\ canceled
    /\ polls # <<>> /\ LastPoll[1] = "top" /\ ~LastPoll[2]
    /\ Len(trace) = 2 /\ ~trace[1].ok /\ trace[2].ok
    /\ ret = ReturnStr(JsonDumps(trace[2].body))

(***************************************************************************)
(* C13: as claimed, if the flag becomes set at any moment after the        *)
(* arguments were accepted and before the invocation returns, and no       *)
(* remote call succeeds, the invocation returns no value and writes        *)
(* neither _ERROR nor success, also when the flag is set during the sleep  *)
(* after the last permitted attempt.  Nothing polls the flag after that    *)
(* sleep, so there the remote error is reported.                           *)
(***************************************************************************)
PassedEntryCheck == polls # <<>> /\ ~polls[1][2]

C13_SilentWheneverFlagSet ==
    (Done /\ canceled /\ PassedEntryCheck /\ ValidInputs /\ AllAttemptsFailed)
        => /\ ret.kind # "str"
           /\ written = <<>>

(***************************************************************************)
(* C13 as amended: an invocation that detects the flag at one of its polls *)
(* (entry, top of an iteration, right after a failed attempt) returns no   *)
(* value and writes neither _ERROR nor success; a flag set after the last  *)
(* poll, such as during the sleep after the last permitted attempt, is not *)
(* detected and the invocation ends as it does with the flag unset: with   *)
(* the remote error reported when its message is not empty, and with       *)
(* AssertionError and nothing written when it is.                          *)
(***************************************************************************)
C13_SilentWhenCancellationDetected ==
    /\ ObservedCanceled
        => /\ Done
           /\ ret = ReturnNone
           /\ written = <<>>
           /\ ~IsSet("_ERROR") /\ ~IsSet("success")
    /\ (Done /\ canceled /\ ~ObservedCanceled /\ ValidInputs /\ AllAttemptsFailed)
        => /\ attempts = max_retries + 1
           /\ sleeps = attempts
           /\ ret # ReturnNone
           /\ last_e # ""
                => /\ ret = ReturnStr(tool \o " error: " \o last_e)
                   /\ ErrorIs(last_e) /\ SuccessIs(FALSE)
           /\ last_e = ""
                => /\ ret = RaiseAssertion
                   /\ written = <<>>

C13_Witness ==
    /\ Done /\ canceled /\ ~ObservedCanceled
    /\ max_retries = 1
    /\ Len(trace) = 2 /\ AllAttemptsFailed
    /\ sleeps = 2
    /\ ret = ReturnStr("GoogleDocsWrite error: quota exceeded")
    /\ ErrorIs("quota exceeded")

(***************************************************************************)
(* Two invocations interleaved by the orchestrator: one runs, the other    *)
(* is parked between two of its steps.  What an invocation owns is its     *)
(* call frame, and the results where they are created for its call; where  *)
(* one object keeps them, both invocations write and find the same         *)
(* results.  The cancellation flag is the task's and both poll it.         *)
(***************************************************************************)
\* largest sum of the max_retries of the two interleaved invocations
MaxParRetries == 1

\* the invocation that is running, as a frame
Running ==
    [used |-> TRUE, tool |-> tool, max_retries |-> max_retries,
     delay_after_error |-> delay_after_error, outputs |-> outputs, pc |-> pc,
     kwargs |-> kwargs, document_id |-> document_id, operations |-> operations,
     last_e |-> last_e, i |-> i, exc |-> exc, service |-> service, ret |-> ret,
     written |-> written, polls |-> polls, attempts |-> attempts,
     builds |-> builds, calls |-> calls, sleeps |-> sleeps, elapsed |-> elapsed,
     trace |-> trace]

\* the frame of an invocation that has not been called yet
Idle(t, mr, d) ==
    [used |-> TRUE, tool |-> t, max_retries |-> mr,
     delay_after_error |-> d, outputs |-> EmptyMap, pc |-> "idle",
     kwargs |-> EmptyMap, document_id |-> <<>>, operations |-> Unassigned,
     last_e |-> "", i |-> 0, exc |-> "", service |-> 0, ret |-> NotReturned,
     written |-> <<>>, polls |-> <<>>, attempts |-> 0,
     builds |-> 0, calls |-> 0, sleeps |-> 0, elapsed |-> 0,
     trace |-> <<>>]

\* a variant of Switch in which the results live on the instance, for both
\* invocations
Switch_SharedOutputs ==
    /\ parked.used
    /\ parked' = Running
    /\ me' = 3 - me
    /\ tool' = parked.tool
    /\ max_retries' = parked.max_retries
    /\ delay_after_error' = parked.delay_after_error
    /\ outputs' = outputs
    /\ pc' = parked.pc
    /\ kwargs' = parked.kwargs
    /\ document_id' = parked.document_id
    /\ operations' = parked.operations
    /\ last_e' = parked.last_e
    /\ i' = parked.i
    /\ exc' = parked.exc
    /\ service' = parked.service
    /\ ret' = parked.ret
    /\ written' = parked.written
    /\ polls' = parked.polls
    /\ attempts' = parked.attempts
    /\ builds' = parked.builds
    /\ calls' = parked.calls
    /\ sleeps' = parked.sleeps
    /\ elapsed' = parked.elapsed
    /\ trace' = parked.trace
    /\ UNCHANGED <<canceled, round, prev, store>>

\* the orchestrator parks the running invocation and resumes the other one
Switch ==
    /\ parked.used
    /\ parked' = Running
    /\ me' = 3 - me
    /\ tool' = parked.tool
    /\ max_retries' = parked.max_retries
    /\ delay_after_error' = parked.delay_after_error
    /\ outputs' = parked.outputs
    /\ pc' = parked.pc
    /\ kwargs' = parked.kwargs
    /\ document_id' = parked.document_id
    /\ operations' = parked.operations
    /\ last_e' = parked.last_e
    /\ i' = parked.i
    /\ exc' = parked.exc
    /\ service' = parked.service
    /\ ret' = parked.ret
    /\ written' = parked.written
    /\ polls' = parked.polls
    /\ attempts' = parked.attempts
    /\ builds' = parked.builds
    /\ calls' = parked.calls
    /\ sleeps' = parked.sleeps
    /\ elapsed' = parked.elapsed
    /\ trace' = parked.trace
    /\ UNCHANGED <<canceled, round, prev, store>>

\* two invocations: of one object that keeps the results ("object"), or of
\* one object with results per call or of two objects ("call")
InitPar ==
    /\ tool \in Tools
    /\ max_retries \in 0..MaxParRetries
    /\ delay_after_error = MaxDelay
    /\ outputs = EmptyMap
    /\ canceled = FALSE
    /\ pc = "idle"
    /\ kwargs = EmptyMap
    /\ document_id = <<>>
    /\ operations = Unassigned
    /\ last_e = ""
    /\ i = 0
    /\ exc = ""
    /\ service = 0
    /\ ret = NotReturned
    /\ written = <<>>
    /\ polls = <<>>
    /\ attempts = 0
    /\ builds = 0
    /\ calls = 0
    /\ sleeps = 0
    /\ elapsed = 0
    /\ trace = <<>>
    /\ round = 0
    /\ prev = NoPrev
    /\ me = 1
    /\ parked \in {Idle(t, mr, MaxDelay) :
                      t \in Tools, mr \in 0..(MaxParRetries - max_retries)}
    /\ store \in IF parked.tool = tool /\ parked.max_retries = max_retries
                 THEN Stores ELSE {"call"}

\* an invocation is called before the other one has returned: the two overlap
NextPar ==
    \/ /\ pc = "idle"
       /\ parked.pc # "done"
       /\ \E kw \in SeqKwargs(tool), flag \in {canceled, TRUE} : Invoke(kw, flag)
    \/ Step
    \/ Switch

SpecPar == InitPar /\ [][NextPar]_vars

(***************************************************************************)
(* C14: results are fresh per call.  With the results created for each     *)
(* call, as the data model of the specification has it, in a sequence of   *)
(* invocations on one tool instance the structured outputs at completion   *)
(* of an invocation are exactly what this invocation has written; after a  *)
(* failed invocation followed on the same instance by a successful one,    *)
(* _ERROR is not set at completion of the second; after a success followed *)
(* by a cancelled invocation, neither success nor _ERROR of the first is   *)
(* reported for the second.  _invoke itself never clears a key: where the  *)
(* base class keeps the results on the object, they stay.                  *)
(***************************************************************************)
RECURSIVE OutputsOf(_)
OutputsOf(w) ==
    IF w = <<>> THEN EmptyMap
    ELSE SetOutput(OutputsOf(SubSeq(w, 1, Len(w) - 1)), w[Len(w)][1], w[Len(w)][2])

SomeAttemptSucceeded == \E j \in 1..Len(trace) : trace[j].ok

PrevFailed == prev.ended /\ "_ERROR" \in DOMAIN prev.outputs

PrevSucceeded ==
    /\ prev.ended
    /\ "success" \in DOMAIN prev.outputs
    /\ prev.outputs["success"] = TRUE

ErrorOutputs(m) == SetOutput(SetOutput(EmptyMap, "_ERROR", m), "success", FALSE)

\* the result of an invocation running alone, called from module level:
\* tool t on the arguments kw, tr the outcomes of its attempts, pl the
\* answers of its polls
Alone(t, kw, tr, pl) ==
    LET v == Validate(t, kw, MinFrames)
        seen == \E j \in 1..Len(pl) : pl[j][2]
        last == tr[Len(tr)]
    IN  IF seen THEN [ret |-> ReturnNone, outputs |-> EmptyMap]
        ELSE IF v.raised # "" THEN [ret |-> Raise(v.raised), outputs |-> EmptyMap]
        ELSE IF ~v.ok
        THEN [ret |-> ReturnStr("Error: " \o v.error), outputs |-> ErrorOutputs(v.error)]
        ELSE IF tr = <<>> THEN [ret |-> NotReturned, outputs |-> EmptyMap]
        ELSE IF last.ok
        THEN [ret |-> ReturnStr(JsonDumps(last.body)),
              outputs |-> IF t = "GoogleDocsWrite"
                          THEN SetOutput(EmptyMap, "success", TRUE) ELSE EmptyMap]
        ELSE IF last.text = "" THEN [ret |-> RaiseAssertion, outputs |-> EmptyMap]
        ELSE [ret |-> ReturnStr(t \o " error: " \o last.text),
              outputs |-> ErrorOutputs(last.text)]

\* what is reported for the invocation of frame f when it has returned
AsAlone(f) ==
    f.pc = "done"
        => /\ f.ret = Alone(f.tool, f.kwargs, f.trace, f.polls).ret
           /\ f.outputs = Alone(f.tool, f.kwargs, f.trace, f.polls).outputs

BothCalled == pc # "idle" /\ parked.pc # "idle"

InputProblem(t, kw) ==
    IF BlankArg(kw, "document_id") THEN "document_id is required"
    ELSE IF t = "GoogleDocsWrite" THEN OperationsProblem(kw)
    ELSE ""

\* the exception the decoder raises on the operations value and no handler
\* catches, "" if none, with the fewest frames in use
DecoderEscape(t, kw) ==
    LET r == JsonLoads(Strip(KwGet(kw, "operations")), MinFrames)
    IN  IF t = "GoogleDocsWrite" /\ ~BlankArg(kw, "document_id")
              /\ ~BlankArg(kw, "operations")
              /\ r.exc \in {"ValueError", "RecursionError"}
        THEN r.exc
        ELSE ""

\* how an uncancelled invocation on the invalid inputs kw ends, from the
\* tool and the inputs alone
InvalidEnd(t, kw) ==
    IF DecoderEscape(t, kw) # ""
    THEN [ret |-> Raise(DecoderEscape(t, kw)), written |-> <<>>]
    ELSE [ret |-> ReturnStr("Error: " \o InputProblem(t, kw)),
          written |-> << <<"_ERROR", InputProblem(t, kw)>>, <<"success", FALSE>> >>]

C16_ValidationDeterministic ==
    (Done /\ Uncancelled /\ InputProblem(tool, kwargs) # "")
        => /\ ret = InvalidEnd(tool, kwargs).ret
           /\ written = InvalidEnd(tool, kwargs).written
           /\ outputs = OutputsOf(written)
           /\ NoRemoteActivity
           /\ i = 0 /\ trace = <<>>

(***************************************************************************)
(* C17: a fresh client per attempt, never reused.  The clients constructed *)
(* are as many as the attempts started; each remote call uses the client   *)
(* constructed in its own attempt; an attempt makes at most one remote     *)
(* call; an attempt whose client construction fails makes no remote call,  *)
(* counts against the max_retries + 1 bound, and its failure is captured   *)
(* and slept on like that of a remote call.                                *)
(***************************************************************************)
CallsIn(tr) == Cardinality({j \in 1..Len(tr) : tr[j].at = "call"})

C17_FreshClientPerAttempt ==
    /\ builds = (IF pc = "build" THEN attempts - 1 ELSE attempts)
    /\ attempts <= max_retries + 1
    /\ pc = "call" => (service = attempts /\ Len(trace) = attempts - 1)
    /\ Len(trace) <= attempts
    /\ \A j \in 1..Len(trace) :
          /\ trace[j].at = "call" => trace[j].client = j
          /\ trace[j].at = "build" => (trace[j].client = 0 /\ ~trace[j].ok)
    /\ calls = CallsIn(trace)
    /\ pc = "except" => exc = trace[Len(trace)].text
    /\ pc = "sleep" => (last_e = trace[Len(trace)].text /\ sleeps = Len(trace) - 1)
    /\ (pc = "loop" /\ trace # <<>>)
            => (last_e = trace[Len(trace)].text /\ sleeps = Len(trace))

C17_Witness ==
    /\ Done /\ Len(trace) = 3
    /\ trace[1].at = "build" /\ trace[1].text = "timed out"
    /\ trace[2].at = "call" /\ ~trace[2].ok /\ trace[2].client = 2
    /\ trace[3].ok /\ trace[3].client = 3
    /\ attempts = 3 /\ builds = 3 /\ calls = 2 /\ sleeps = 2

(***************************************************************************)
(* C18: in every reachable state of an invocation, whatever the attempts   *)
(* answer and whenever the flag is set: the attempts started are at most   *)
(* max_retries + 1; the sleeps are at most the failed attempts; attempts   *)
(* are sequential, at most one of them unfinished and at most one remote   *)
(* call in flight; no attempt starts after an attempt succeeded or after   *)
(* the invocation wrote _ERROR.                                            *)
(***************************************************************************)
FailedAttempts == Cardinality({j \in 1..Len(trace) : ~trace[j].ok})

AttemptsInFlight == attempts - Len(trace)

\* the invocation has left the loop for good: it is reporting, or has ended
PastLoop ==
    pc \in {"invalid_success", "invalid_return", "failed_success", "failed_return", "done"}

C18_RetryLoopInvariant ==
    /\ attempts <= max_retries + 1
    /\ attempts = i - (IF ObservedCanceled /\ LastPoll[1] = "top" THEN 1 ELSE 0)
    /\ sleeps <= FailedAttempts
    /\ AttemptsInFlight \in {0, 1}
    /\ AttemptsInFlight = 1 <=> pc \in {"build", "call"}
    /\ calls <= attempts
    /\ \A j \in 1..Len(trace) : trace[j].ok => (j = Len(trace) /\ attempts = j /\ Done)
    /\ IsSet("_ERROR") => (PastLoop /\ AttemptsInFlight = 0)
    /\ Done => pc \notin {"build", "call"}

C18_Witness ==
    /\ max_retries = MaxRetries
    /\ attempts = max_retries + 1
    /\ pc = "exhausted"
    /\ canceled /\ ~ObservedCanceled
    /\ FailedAttempts = attempts /\ sleeps = attempts

(***************************************************************************)
(* C19: when every client construction, remote call and sleep eventually   *)
(* returns, every invocation eventually terminates, and it terminates in   *)
(* exactly one of three outcomes: a success payload returned, a structured *)
(* error returned, or a silent return with no result because of            *)
(* cancellation; it never ends in any other state.  The invocation does    *)
(* terminate (C19_Terminates holds under FairSpec), but it can end by      *)
(* raising AssertionError, or with an exception of the JSON decoder that   *)
(* no handler catches, and these are none of the three.                    *)
(***************************************************************************)
PayloadOutcome == SuccessPayloadReturned /\ trace[Len(trace)].ok

ErrorOutcome ==
    /\ ret.kind = "str"
    /\ IsSet("_ERROR") /\ SuccessIs(FALSE)
    /\ ret.text \in {"Error: " \o outputs["_ERROR"], tool \o " error: " \o outputs["_ERROR"]}

SilentOutcome == ret = ReturnNone /\ ObservedCanceled /\ written = <<>>

OutcomesReached ==
    (IF PayloadOutcome THEN 1 ELSE 0) + (IF ErrorOutcome THEN 1 ELSE 0)
        + (IF SilentOutcome THEN 1 ELSE 0)

C19_EndsInOneOfThree == Done => OutcomesReached = 1

\* the termination half of C19
C19_Terminates == (pc = "entry") ~> Done
=============================================================================
